---------------------------- MODULE Spec2Model ----------------------------
(***************************************************************************)
(* Model of the deployment regression checker (agent-python/):             *)
(*   baseline.py        capture_baseline / load_baseline /                 *)
(*                      compare_with_baseline and its command line         *)
(*   quality_checks.py  check_quality_issues and its command line          *)
(*   agent.py           the tools, run_agent and its command line          *)
(*                                                                         *)
(* The deployed page is a sequence of parsed elements in document order.   *)
(* An element is [tag, text, attrs, kids]: attrs is the set of             *)
(* <<name, value>> pairs the tag carries (an absent attribute has no       *)
(* pair), kids the child elements.                                         *)
(***************************************************************************)
EXTENDS Integers, Sequences, FiniteSets, TLC

VARIABLES
    site,           \* the deployment: [up, html]
    baseline_file,  \* baseline.json: [exists, content]
    written,        \* history: what the last operation did to baseline.json
    now,            \* datetime.now()
    deploys,        \* number of changes made to the deployment so far
    result,         \* return value of the last function run on this deployment
    report,         \* lines of the report the last command line run saved
    exit_status,    \* exit status of the last command line run, or NotRun
    messages,       \* run_agent: the message history
    iteration,      \* run_agent: the loop counter
    pc,             \* run_agent: Idle, Thinking, Done, IterationLimitReached, Failed
    agent_exits     \* exit statuses of the agent runs completed on this deployment

agentVars == <<messages, iteration, pc, agent_exits>>
vars == <<site, baseline_file, written, now, deploys, result, report, exit_status, agentVars>>

(***************************************************************************)
(* Bounds                                                                  *)
(***************************************************************************)
MaxDeploys == 2
MaxTime == 1

(***************************************************************************)
(* Python values                                                           *)
(***************************************************************************)
None == "<None>"
NotRun == 0 - 1

Range(s) == {s[i] : i \in 1..Len(s)}

\* [f(x) for x in s]
RECURSIVE MapSeq(_, _)
MapSeq(F(_), s) == IF s = <<>> THEN <<>> ELSE <<F(Head(s))>> \o MapSeq(F, Tail(s))

\* the orders in which a Python set may be iterated: list(set)
Orders(S) == {s \in [1..Cardinality(S) -> S] : Range(s) = S}

\* str.strip() on the texts of the model
Strip(s) == CASE s = " " -> ""
              [] s = " + " -> "+"
              [] OTHER -> s

\* sep.join(items): TypeError when an item is not a str
TypeError == <<"TypeError">>
RECURSIVE Concat(_, _)
Concat(sep, items) ==
    IF items = <<>> THEN <<>>
    ELSE IF Len(items) = 1 THEN <<Head(items)>>
    ELSE <<Head(items), sep>> \o Concat(sep, Tail(items))
Join(sep, items) ==
    IF None \in Range(items) THEN TypeError ELSE Concat(sep, items)

(***************************************************************************)
(* BeautifulSoup                                                           *)
(***************************************************************************)
Elem(tag, text, attrs) == [tag |-> tag, text |-> text, attrs |-> attrs, kids |-> <<>>]

HasAttr(e, a) == \E p \in e.attrs : p[1] = a
\* tag.get(a, default)
Get(e, a, default) ==
    IF HasAttr(e, a) THEN (CHOOSE p \in e.attrs : p[1] = a)[2] ELSE default

\* document order: an element, then its children
RECURSIVE Flatten(_)
Flatten(html) ==
    IF html = <<>> THEN <<>>
    ELSE <<Head(html)>> \o Head(html).kids \o Flatten(Tail(html))

\* soup.find_all(tag)
find_all(html, tag) == SelectSeq(Flatten(html), LAMBDA e : e.tag = tag)
\* soup.find_all('link', rel='stylesheet')
find_all_stylesheets(html) ==
    SelectSeq(Flatten(html), LAMBDA e : e.tag = "link" /\ Get(e, "rel", None) = "stylesheet")
\* soup.find_all(id=True)
find_all_with_id(html) == SelectSeq(Flatten(html), LAMBDA e : HasAttr(e, "id"))
\* tag.get_text()
get_text(e) == e.text
\* tag.string: None for a tag without a text child
String(e) == IF e.text = "" THEN None ELSE e.text
\* bool(x) of a str or None
Truthy(x) == x # None /\ x # ""

(***************************************************************************)
(* The counter application as deployed, and what a deployment may add      *)
(***************************************************************************)
CounterApp ==
    << Elem("html", "", {<<"lang", "en">>}),
       Elem("meta", "", {<<"name", "viewport">>}),
       Elem("title", "Counter App", {}),
       Elem("link", "", {<<"rel", "stylesheet">>, <<"href", "style.css">>}),
       Elem("span", "0", {<<"id", "count">>}),
       Elem("button", "+", {<<"id", "increment">>}),
       Elem("button", "-", {<<"id", "decrement">>}),
       Elem("button", "Reset", {<<"id", "reset">>}),
       Elem("script", "", {<<"src", "app.js">>}) >>

\* the same application with a theme stylesheet link that carries no href
ThemedApp == Append(CounterApp, Elem("link", "", {<<"rel", "stylesheet">>}))

StartPages == {CounterApp, ThemedApp}

Additions ==
    { Elem("link", "", {<<"rel", "stylesheet">>}),
      Elem("script", "init()", {}),
      Elem("button", "Help", {}),
      Elem("button", "Undo", {<<"id", "undo">>}) }

\* content a deployment may add: images, a form field and its label, buttons,
\* links and replacement titles
Contents ==
    { Elem("img", "", {<<"src", "logo.png">>}),
      Elem("img", "", {<<"src", "logo.png">>, <<"alt", "">>}),
      Elem("img", "", {<<"src", "logo.png">>, <<"alt", "Logo">>}),
      Elem("input", "", {<<"id", "step">>, <<"type", "number">>}),
      Elem("label", "Step", {<<"for", "step">>}),
      Elem("button", "Submit", {<<"id", "submit">>}),
      Elem("button", "", {<<"id", "reset">>}),
      Elem("a", "", {<<"href", "#">>}),
      [Elem("a", "", {<<"href", "/">>}) EXCEPT
          !.kids = <<Elem("img", "", {<<"src", "home.png">>, <<"alt", "Home">>})>>],
      Elem("title", "", {}),
      Elem("title", " ", {}) }

RemoveAt(s, i) == SubSeq(s, 1, i - 1) \o SubSeq(s, i + 1, Len(s))


(***************************************************************************)
(* json.dump / json.load of a baseline document                            *)
(***************************************************************************)
JStr(x) == IF x = None THEN <<"null">> ELSE <<"string", x>>
JNum(n) == <<"number", n>>
\* mutant: null is loaded as the empty string
JLoadValue_null_as_empty(j) == IF j = <<"null">> THEN "" ELSE j[2]
JLoadValue(j) == IF j = <<"null">> THEN None ELSE j[2]

JDumpButton(b) == [id |-> JStr(b.id), text |-> JStr(b.text), classes |-> MapSeq(JStr, b.classes)]
JLoadButton(b) ==
    [id |-> JLoadValue(b.id), text |-> JLoadValue(b.text), classes |-> MapSeq(JLoadValue, b.classes)]
JDumpInput(i) == [id |-> JStr(i.id), type |-> JStr(i.type), name |-> JStr(i.name)]
JLoadInput(i) == [id |-> JLoadValue(i.id), type |-> JLoadValue(i.type), name |-> JLoadValue(i.name)]
JDumpCounts(c) == [k \in DOMAIN c |-> JNum(c[k])]
JLoadCounts(c) == [k \in DOMAIN c |-> JLoadValue(c[k])]

json_dump(b) ==
    [url |-> JStr(b.url),
     timestamp |-> JStr(b.timestamp),
     structure |->
        [title |-> JStr(b.structure.title),
         scripts |-> MapSeq(JStr, b.structure.scripts),
         stylesheets |-> MapSeq(JStr, b.structure.stylesheets),
         buttons |-> MapSeq(JDumpButton, b.structure.buttons),
         inputs |-> MapSeq(JDumpInput, b.structure.inputs),
         critical_ids |-> MapSeq(JStr, b.structure.critical_ids),
         element_counts |-> JDumpCounts(b.structure.element_counts)]]

\* mutant: the ids are loaded without their repetitions
RECURSIVE Distinct(_)
Distinct(s) ==
    IF s = <<>> THEN <<>>
    ELSE <<Head(s)>> \o Distinct(SelectSeq(Tail(s), LAMBDA x : x # Head(s)))
json_load_distinct_ids(d) ==
    [url |-> JLoadValue(d.url),
     timestamp |-> JLoadValue(d.timestamp),
     structure |->
        [title |-> JLoadValue(d.structure.title),
         scripts |-> MapSeq(JLoadValue, d.structure.scripts),
         stylesheets |-> MapSeq(JLoadValue, d.structure.stylesheets),
         buttons |-> MapSeq(JLoadButton, d.structure.buttons),
         inputs |-> MapSeq(JLoadInput, d.structure.inputs),
         critical_ids |-> Distinct(MapSeq(JLoadValue, d.structure.critical_ids)),
         element_counts |-> JLoadCounts(d.structure.element_counts)]]

json_load(d) ==
    [url |-> JLoadValue(d.url),
     timestamp |-> JLoadValue(d.timestamp),
     structure |->
        [title |-> JLoadValue(d.structure.title),
         scripts |-> MapSeq(JLoadValue, d.structure.scripts),
         stylesheets |-> MapSeq(JLoadValue, d.structure.stylesheets),
         buttons |-> MapSeq(JLoadButton, d.structure.buttons),
         inputs |-> MapSeq(JLoadInput, d.structure.inputs),
         critical_ids |-> MapSeq(JLoadValue, d.structure.critical_ids),
         element_counts |-> JLoadCounts(d.structure.element_counts)]]

(***************************************************************************)
(* baseline.py: the structure captured from a page                         *)
(***************************************************************************)
Url == "https://your-username.github.io/your-repo/"

\* datetime.now().isoformat()
isoformat(t) == <<"T", t>>

Classes(e) == IF HasAttr(e, "class") THEN <<Get(e, "class", None)>> ELSE <<>>

title_of(html) ==
    IF find_all(html, "title") = <<>> THEN "" ELSE String(Head(find_all(html, "title")))
scripts_of(html) == MapSeq(LAMBDA s : Get(s, "src", "inline"), find_all(html, "script"))
stylesheets_of(html) == MapSeq(LAMBDA l : Get(l, "href", None), find_all_stylesheets(html))
critical_ids_of(html) ==
    MapSeq(LAMBDA e : Get(e, "id", None),
           SelectSeq(find_all_with_id(html), LAMBDA e : Truthy(Get(e, "id", None))))

baseline_buttons(html) ==
    MapSeq(LAMBDA b : [id |-> Get(b, "id", None), text |-> Strip(get_text(b)), classes |-> Classes(b)],
           find_all(html, "button"))
baseline_inputs(html) ==
    MapSeq(LAMBDA i : [id |-> Get(i, "id", None), type |-> Get(i, "type", None),
                       name |-> Get(i, "name", None)],
           find_all(html, "input"))
element_counts(html) ==
    [buttons |-> Len(find_all(html, "button")),
     inputs |-> Len(find_all(html, "input")),
     forms |-> Len(find_all(html, "form")),
     links |-> Len(find_all(html, "a")),
     images |-> Len(find_all(html, "img")),
     scripts |-> Len(find_all(html, "script")),
     styles |-> Len(find_all_stylesheets(html))]

\* mutant: the captured title carries the time of the capture
BaselineStampsTitle(html, t) ==
    [url |-> Url,
     timestamp |-> isoformat(t),
     structure |->
        [title |-> <<title_of(html), t>>,
         scripts |-> scripts_of(html),
         stylesheets |-> stylesheets_of(html),
         buttons |-> baseline_buttons(html),
         inputs |-> baseline_inputs(html),
         critical_ids |-> critical_ids_of(html),
         element_counts |-> element_counts(html)]]

Baseline(html, t) ==
    [url |-> Url,
     timestamp |-> isoformat(t),
     structure |->
        [title |-> title_of(html),
         scripts |-> scripts_of(html),
         stylesheets |-> stylesheets_of(html),
         buttons |-> baseline_buttons(html),
         inputs |-> baseline_inputs(html),
         critical_ids |-> critical_ids_of(html),
         element_counts |-> element_counts(html)]]

\* load_baseline: [found |-> FALSE] is None
load_baseline(file) ==
    IF ~file.exists THEN [found |-> FALSE]
    ELSE [found |-> TRUE, value |-> json_load(file.content)]

(***************************************************************************)
(* baseline.py: compare_with_baseline                                      *)
(***************************************************************************)
Current(html) ==
    [buttons |-> MapSeq(LAMBDA b : [id |-> Get(b, "id", None), text |-> Strip(get_text(b))],
                        find_all(html, "button")),
     critical_ids |-> critical_ids_of(html),
     scripts |-> scripts_of(html),
     stylesheets |-> stylesheets_of(html)]

\* {btn['id'] for btn in buttons if btn['id']}
button_ids(buttons) == {b.id : b \in {x \in Range(buttons) : Truthy(x.id)}}

\* mutant: every button id that differs is reported as missing
missing_buttons_symmetric(baseline, current) ==
    (button_ids(baseline.structure.buttons) \ button_ids(current.buttons))
        \cup (button_ids(current.buttons) \ button_ids(baseline.structure.buttons))
missing_buttons(baseline, current) ==
    button_ids(baseline.structure.buttons) \ button_ids(current.buttons)
new_buttons(baseline, current) ==
    button_ids(current.buttons) \ button_ids(baseline.structure.buttons)
\* mutant: an id already reported as a missing button is not reported again
missing_ids_deduplicated(baseline, current) ==
    (Range(baseline.structure.critical_ids) \ Range(current.critical_ids))
        \ (button_ids(baseline.structure.buttons) \ button_ids(current.buttons))
missing_ids(baseline, current) ==
    Range(baseline.structure.critical_ids) \ Range(current.critical_ids)
new_ids(baseline, current) ==
    Range(current.critical_ids) \ Range(baseline.structure.critical_ids)
missing_scripts(baseline, current) ==
    Range(baseline.structure.scripts) \ Range(current.scripts)
missing_styles(baseline, current) ==
    Range(baseline.structure.stylesheets) \ Range(current.stylesheets)

\* the entry appended for a non-empty set, iterated in the order `items`
Regression(type, severity, label, items) ==
    IF items = <<>> THEN <<>>
    ELSE << [type |-> type, severity |-> severity,
             details |-> <<label>> \o Join(", ", items), items |-> items] >>
Improvement(type, label, items) ==
    IF items = <<>> THEN <<>>
    ELSE << [type |-> type, details |-> <<label>> \o Join(", ", items), items |-> items] >>

\* a join over an item that is not a str raises inside the try block
Raises(items) == items # <<>> /\ Join(", ", items) = TypeError

regressions_of(mb, mi, ms, mst) ==
    Regression("MISSING_BUTTONS", "HIGH", "Missing buttons: ", mb)
    \o Regression("MISSING_ELEMENTS", "HIGH", "Missing element IDs: ", mi)
    \o Regression("MISSING_SCRIPTS", "CRITICAL", "Missing JavaScript files: ", ms)
    \o Regression("MISSING_STYLES", "MEDIUM", "Missing CSS files: ", mst)
improvements_of(nb, ni) ==
    Improvement("NEW_BUTTONS", "New buttons added: ", nb)
    \o Improvement("NEW_ELEMENTS", "New element IDs: ", ni)

compare_status(regressions) == IF regressions # <<>> THEN "REGRESSIONS_FOUND" ELSE "HEALTHY"

CountSeverity(regressions, sev) ==
    Len(SelectSeq(regressions, LAMBDA r : r.severity = sev))

compare_summary(regressions, improvements) ==
    [total_regressions |-> Len(regressions),
     total_improvements |-> Len(improvements),
     critical_issues |-> CountSeverity(regressions, "CRITICAL"),
     high_issues |-> CountSeverity(regressions, "HIGH")]

CompareError(e) ==
    [op |-> "compare_with_baseline", status |-> "ERROR",
     message |-> <<"Error comparing with baseline: ", e>>,
     regressions |-> <<>>, improvements |-> <<>>]

\* mutant: a missing baseline is reported as an error
NoBaselineIsError ==
    [op |-> "compare_with_baseline", status |-> "ERROR",
     message |-> <<"No baseline found. Run baseline.py to create one.">>,
     regressions |-> <<>>, improvements |-> <<>>]
NoBaseline ==
    [op |-> "compare_with_baseline", status |-> "NO_BASELINE",
     message |-> <<"No baseline found. Run baseline.py to create one.">>,
     regressions |-> <<>>, improvements |-> <<>>]

\* mutant: the except branch returns the findings appended before the raise
CompareResultKeepsFindings(baseline, mb, nb, mi, ni, ms, mst) ==
    IF Raises(mb) \/ Raises(nb) \/ Raises(mi) \/ Raises(ni) \/ Raises(ms) \/ Raises(mst)
    THEN [op |-> "compare_with_baseline", status |-> "ERROR",
          message |-> <<"Error comparing with baseline: ", "TypeError">>,
          regressions |-> regressions_of(mb, mi, ms, <<>>),
          improvements |-> improvements_of(nb, ni)]
    ELSE [op |-> "compare_with_baseline",
          status |-> compare_status(regressions_of(mb, mi, ms, mst)),
          baseline_timestamp |-> baseline.timestamp,
          regressions |-> regressions_of(mb, mi, ms, mst),
          improvements |-> improvements_of(nb, ni),
          summary |-> compare_summary(regressions_of(mb, mi, ms, mst), improvements_of(nb, ni))]

\* the try block, given the iteration order of each set difference
CompareResult(baseline, mb, nb, mi, ni, ms, mst) ==
    IF Raises(mb) \/ Raises(nb) \/ Raises(mi) \/ Raises(ni) \/ Raises(ms) \/ Raises(mst)
    THEN CompareError("TypeError")
    ELSE [op |-> "compare_with_baseline",
          status |-> compare_status(regressions_of(mb, mi, ms, mst)),
          baseline_timestamp |-> baseline.timestamp,
          regressions |-> regressions_of(mb, mi, ms, mst),
          improvements |-> improvements_of(nb, ni),
          summary |-> compare_summary(regressions_of(mb, mi, ms, mst), improvements_of(nb, ni))]

\* the values compare_with_baseline may return
CompareResults(file, s) ==
    LET loaded == load_baseline(file) IN
    IF ~loaded.found THEN {NoBaseline}
    ELSE IF ~s.up THEN {CompareError("ConnectionError")}
    ELSE LET baseline == loaded.value
             current == Current(s.html)
         IN { CompareResult(baseline, mb, nb, mi, ni, ms, mst) :
                mb \in Orders(missing_buttons(baseline, current)),
                nb \in Orders(new_buttons(baseline, current)),
                mi \in Orders(missing_ids(baseline, current)),
                ni \in Orders(new_ids(baseline, current)),
                ms \in Orders(missing_scripts(baseline, current)),
                mst \in Orders(missing_styles(baseline, current)) }

(***************************************************************************)
(* quality_checks.py: check_quality_issues                                 *)
(* An issue is [type, element, message]; a warning carries a count instead *)
(* of an element.  The constant impact and fix texts are left out.         *)
(***************************************************************************)
Issue(type, element, message) == [type |-> type, element |-> element, message |-> message]

\* 1. buttons without text
empty_button(btn) ==
    LET btn_text == Strip(get_text(btn))
        btn_id == Get(btn, "id", "unknown")
        btn_aria_label == Get(btn, "aria-label", "")
    IN IF btn_text = "" /\ btn_aria_label = ""
       THEN << Issue("EMPTY_BUTTON",
                     IF btn_id # "unknown" THEN <<"button#", btn_id>> ELSE <<"button">>,
                     <<"Button with id=", btn_id, " has no text or aria-label">>) >>
       ELSE <<>>

\* soup.find('label', attrs={'for': inp_id}) finds a label
has_label(html, inp_id) ==
    \E l \in Range(find_all(html, "label")) : Get(l, "for", None) = inp_id

\* 2. inputs without labels
input_without_label(html, inp) ==
    LET inp_id == Get(inp, "id", "")
        inp_type == Get(inp, "type", "text")
    IN IF inp_id # "" /\ ~has_label(html, inp_id) /\ inp_type \notin {"hidden", "submit", "button"}
       THEN << Issue("INPUT_WITHOUT_LABEL", <<"input#", inp_id>>,
                     <<"Input field ", inp_id, " has no associated label">>) >>
       ELSE <<>>

\* 3. images without alt text
image_without_alt(img) ==
    IF ~Truthy(Get(img, "alt", None))
    THEN << Issue("IMAGE_WITHOUT_ALT", <<"img[src=", Get(img, "src", "unknown"), "]">>,
                  <<"Image has no alt text">>) >>
    ELSE <<>>

\* 4. soup.title.string.strip() raises AttributeError when the title has no text child
title_raises(html) ==
    find_all(html, "title") # <<>> /\ String(Head(find_all(html, "title"))) = None
missing_page_title(html) ==
    IF find_all(html, "title") = <<>> \/ Strip(String(Head(find_all(html, "title")))) = ""
    THEN << Issue("MISSING_PAGE_TITLE", <<"title">>, <<"Page has no title or empty title">>) >>
    ELSE <<>>

\* 5. duplicate ids
all_ids(html) == MapSeq(LAMBDA e : Get(e, "id", None), find_all_with_id(html))
Count(s, x) == Cardinality({i \in 1..Len(s) : s[i] = x})
duplicate_ids(html) == {id \in Range(all_ids(html)) : Count(all_ids(html), id) > 1}
duplicate_id(dup_id) ==
    Issue("DUPLICATE_ID", <<"#", dup_id>>, <<"Multiple elements have id=", dup_id>>)

\* 6. buttons without ids, when the page has scripts
buttons_without_id(html) ==
    SelectSeq(find_all(html, "button"), LAMBDA b : ~Truthy(Get(b, "id", None)))
button_without_id(html) ==
    IF buttons_without_id(html) # <<>> /\ Len(find_all(html, "script")) > 0
    THEN << [type |-> "BUTTON_WITHOUT_ID", count |-> Len(buttons_without_id(html)),
             message |-> <<Len(buttons_without_id(html)), " button(s) have no ID">>] >>
    ELSE <<>>

\* 7. empty links
empty_link(link) ==
    IF Strip(get_text(link)) = "" /\ ~\E k \in Range(link.kids) : k.tag = "img"
    THEN << Issue("EMPTY_LINK", <<"a[href=", Get(link, "href", ""), "]">>,
                  <<"Link has no text or image">>) >>
    ELSE <<>>

\* 8. missing meta viewport
missing_viewport(html) ==
    IF ~\E m \in Range(find_all(html, "meta")) : Get(m, "name", None) = "viewport"
    THEN << Issue("MISSING_VIEWPORT", <<"meta[name=viewport]">>, <<"Missing viewport meta tag">>) >>
    ELSE <<>>

\* 9. missing language attribute
missing_lang(html) ==
    IF find_all(html, "html") # <<>> /\ ~Truthy(Get(Head(find_all(html, "html")), "lang", None))
    THEN << Issue("MISSING_LANG", <<"html">>, <<"HTML tag missing lang attribute">>) >>
    ELSE <<>>

\* 10. inline styles
InlineStyleLimit == 5
elements_with_style(html) == SelectSeq(Flatten(html), LAMBDA e : HasAttr(e, "style"))
excessive_inline_styles(html) ==
    IF Len(elements_with_style(html)) > InlineStyleLimit
    THEN << [type |-> "EXCESSIVE_INLINE_STYLES", count |-> Len(elements_with_style(html)),
             message |-> <<Len(elements_with_style(html)), " elements have inline styles">>] >>
    ELSE <<>>

\* the issues a rule appends for each element of a sequence, in order
RECURSIVE FlatMap(_, _)
FlatMap(F(_), s) == IF s = <<>> THEN <<>> ELSE F(Head(s)) \o FlatMap(F, Tail(s))

\* the buckets, duplicate ids iterated in the order `dups`
quality_issues(html, dups) ==
    [critical |-> MapSeq(duplicate_id, dups),
     high |-> FlatMap(empty_button, find_all(html, "button")) \o missing_page_title(html),
     medium |-> FlatMap(LAMBDA i : input_without_label(html, i), find_all(html, "input"))
                \o FlatMap(image_without_alt, find_all(html, "img"))
                \o FlatMap(empty_link, find_all(html, "a")),
     low |-> missing_viewport(html) \o missing_lang(html),
     warnings |-> button_without_id(html) \o excessive_inline_styles(html)]

total_issues(issues) ==
    Len(issues.critical) + Len(issues.high) + Len(issues.medium) + Len(issues.low)

quality_status(issues) ==
    IF total_issues(issues) > 0 THEN "QUALITY_ISSUES_FOUND" ELSE "QUALITY_OK"

quality_summary(issues) ==
    [total_issues |-> total_issues(issues),
     critical |-> Len(issues.critical),
     high |-> Len(issues.high),
     medium |-> Len(issues.medium),
     low |-> Len(issues.low),
     warnings |-> Len(issues.warnings)]

QualityError(e) ==
    [op |-> "check_quality_issues", status |-> "ERROR",
     message |-> <<"Error checking quality: ", e>>,
     issues |-> [critical |-> <<>>, high |-> <<>>, medium |-> <<>>, low |-> <<>>, warnings |-> <<>>]]

QualityResult(html, dups) ==
    [op |-> "check_quality_issues",
     status |-> quality_status(quality_issues(html, dups)),
     url |-> Url,
     issues |-> quality_issues(html, dups),
     summary |-> quality_summary(quality_issues(html, dups))]

\* the values check_quality_issues may return
QualityResults(s) ==
    IF ~s.up THEN {QualityError("ConnectionError")}
    ELSE IF title_raises(s.html) THEN {QualityError("AttributeError")}
    ELSE {QualityResult(s.html, dups) : dups \in Orders(duplicate_ids(s.html))}

\* result.get('summary', {}).get(key, 0)
summary_get(res, key) == IF "summary" \in DOMAIN res THEN res.summary[key] ELSE 0

\* format_quality_report: the lines of the report
Section(head, issues) ==
    IF issues = <<>> THEN <<>>
    ELSE <<head>> \o MapSeq(LAMBDA i : <<i.type, i.message>>, issues)
format_quality_report(res) ==
    << <<"URL", IF "url" \in DOMAIN res THEN res.url ELSE "N/A">>,
       <<"Status", res.status>>,
       <<"Total Issues", summary_get(res, "total_issues")>>,
       <<"Critical", summary_get(res, "critical")>>,
       <<"High", summary_get(res, "high")>>,
       <<"Medium", summary_get(res, "medium")>>,
       <<"Low", summary_get(res, "low")>>,
       <<"Warnings", summary_get(res, "warnings")>> >>
    \o Section(<<"CRITICAL ISSUES">>, res.issues.critical)
    \o Section(<<"HIGH SEVERITY ISSUES">>, res.issues.high)
    \o Section(<<"MEDIUM SEVERITY ISSUES">>, res.issues.medium)
    \o Section(<<"LOW SEVERITY ISSUES">>, res.issues.low)
    \o Section(<<"WARNINGS">>, res.issues.warnings)

\* the exit status of python quality_checks.py
quality_exit(res) ==
    IF summary_get(res, "critical") > 0 \/ summary_get(res, "high") > 0 THEN 1 ELSE 0

(***************************************************************************)
(* agent.py: the tools.  A tool returns a JSON document or, from its       *)
(* except branch, an error string; both are kept as the sequence of their  *)
(* keys and values.  Every page of the model has a <body>.                 *)
(***************************************************************************)
\* soup.find(id=element_id) finds an element
find_id(html, element_id) ==
    \E e \in Range(Flatten(html)) : Get(e, "id", None) = element_id

HeadTags == {"html", "head", "meta", "title", "link"}

check_deployed_site(s) ==
    IF ~s.up THEN <<"Error fetching site: ", "ConnectionError">>
    ELSE <<"status", "200", "title", title_of(s.html), "scripts">> \o scripts_of(s.html)
         \o <<"stylesheets">> \o stylesheets_of(s.html)
         \o <<"buttons">> \o FlatMap(LAMBDA b : <<"id", Get(b, "id", None), "text", get_text(b)>>,
                                     find_all(s.html, "button"))
         \o <<"hasCounter", IF find_id(s.html, "count") THEN "true" ELSE "false">>
         \o <<"bodyStructure">>
         \o MapSeq(LAMBDA e : e.tag, SelectSeq(s.html, LAMBDA e : e.tag \notin HeadTags))

elementsFound(html, expected) == SelectSeq(expected, LAMBDA id : find_id(html, id))
elementsMissing(html, expected) == SelectSeq(expected, LAMBDA id : ~find_id(html, id))

test_javascript_functionality(s, expected_elements) ==
    IF ~s.up THEN <<"Error testing functionality: ", "ConnectionError">>
    ELSE <<"elementsFound">> \o elementsFound(s.html, expected_elements)
         \o <<"elementsMissing">> \o elementsMissing(s.html, expected_elements)
         \o <<"scriptsLoaded", ToString(Len(find_all(s.html, "script")))>>
         \o <<"potentialIssues">>
         \o FlatMap(LAMBDA id : <<"Missing expected element: #", id>>,
                    elementsMissing(s.html, expected_elements))
         \o (IF find_all(s.html, "script") = <<>>
             THEN <<"No JavaScript files found - functionality may be broken">> ELSE <<>>)

criticalIds == <<"count", "increment", "decrement", "reset">>

\* mutant: only the missing ids are breaking changes
breaking_changes_of_ids(html) ==
    IF elementsMissing(html, criticalIds) # <<>>
    THEN <<"Missing critical elements: ">> \o Join(", ", elementsMissing(html, criticalIds))
    ELSE <<>>
breaking_changes(html) ==
    (IF elementsMissing(html, criticalIds) # <<>>
     THEN <<"Missing critical elements: ">> \o Join(", ", elementsMissing(html, criticalIds))
     ELSE <<>>)
    \o (IF Len(find_all(html, "script")) = 0
        THEN <<"No JavaScript files detected - counter functionality will not work">> ELSE <<>>)
    \o (IF Len(find_all(html, "button")) = 0
        THEN <<"No buttons found - user interaction is broken">> ELSE <<>>)

\* the part of the document before foundIds: its first 200 characters
compare_deployments_head(html) ==
    <<"currentAnalysis",
      "scripts", ToString(Len(find_all(html, "script"))),
      "styles", ToString(Len(find_all_stylesheets(html))),
      "buttons", ToString(Len(find_all(html, "button"))),
      "interactiveElements",
      ToString(Len(SelectSeq(Flatten(html),
                             LAMBDA e : e.tag \in {"button", "input", "select", "textarea"}))),
      "criticalIds">> \o criticalIds

compare_deployments(s) ==
    IF ~s.up THEN <<"Error comparing deployments: ", "ConnectionError">>
    ELSE compare_deployments_head(s.html)
         \o <<"foundIds">> \o elementsFound(s.html, criticalIds)
         \o <<"missingIds">> \o elementsMissing(s.html, criticalIds)
         \o <<"breakingChanges">> \o breaking_changes(s.html)
         \o <<"status", IF breaking_changes(s.html) = <<>> THEN "HEALTHY" ELSE "ISSUES_DETECTED">>

\* the relative resources are served by the deployment itself: requests.head
\* on them raises only when the deployment is down
check_common_issues(s) ==
    IF ~s.up THEN <<"Error checking for issues: ", "ConnectionError">>
    ELSE <<"issues", "warnings">>
         \o (IF find_all(s.html, "script") = <<>>
             THEN <<"No JavaScript detected - ensure this is intentional">> ELSE <<>>)
         \o (IF find_all_stylesheets(s.html) = <<>> /\ find_all(s.html, "style") = <<>>
             THEN <<"No CSS detected - page may appear unstyled">> ELSE <<>>)
         \o <<"status", "OK", "checkedAt", "python-requests">>

\* result[:200]: the cut falls before foundIds in a compare_deployments document;
\* the other documents of the model are shorter than it
First200(tool_use, s, res) ==
    IF tool_use.name = "compare_deployments" /\ s.up
    THEN compare_deployments_head(s.html)
    ELSE res

(***************************************************************************)
(* agent.py: run_agent and the command line                                *)
(***************************************************************************)
\* mutant: the loop runs once more
max_iterations_and_one == 10 + 1
max_iterations == 10

Text(words) == [type |-> "text", text |-> words]
ToolUse(id, name, input) == [type |-> "tool_use", id |-> id, name |-> name, input |-> input]

\* what the model may answer: response.content
FinalAnswers ==
    { <<Text(<<"All", "critical", "elements", "are", "present">>)>>,
      <<Text(<<"No", "critical", "elements", "are", "missing">>)>> }
ToolRequests ==
    { <<ToolUse("toolu_1", "check_deployed_site", <<"url", Url>>),
        ToolUse("toolu_2", "compare_deployments", <<"current_url", Url>>)>>,
      <<Text(<<"Checking", "the", "page">>),
        ToolUse("toolu_3", "test_javascript_functionality",
                <<"url", Url, "expected_elements", "count", "increment">>),
        ToolUse("toolu_4", "take_screenshot", <<"url", Url>>),
        ToolUse("toolu_5", "check_common_issues", <<"url", Url>>)>> }
Responses == FinalAnswers \cup ToolRequests

tool_uses_of(content) == SelectSeq(content, LAMBDA b : b.type = "tool_use")
text_blocks_of(content) == SelectSeq(content, LAMBDA b : b.type = "text")

\* tool_use.input['expected_elements']
expected_elements_of(input) == SubSeq(input, 5, Len(input))

\* the dispatch on tool_use.name
tool_result(tool_use, s) ==
    CASE tool_use.name = "check_deployed_site" -> check_deployed_site(s)
      [] tool_use.name = "test_javascript_functionality" ->
            test_javascript_functionality(s, expected_elements_of(tool_use.input))
      [] tool_use.name = "compare_deployments" -> compare_deployments(s)
      [] tool_use.name = "check_common_issues" -> check_common_issues(s)
      [] OTHER -> <<"Unknown tool: ", tool_use.name>>

\* mutant: a tool_use of an unknown name gets no tool_result
tool_results_of_known_tools(content, s) ==
    MapSeq(LAMBDA u : [type |-> "tool_result", tool_use_id |-> u.id, content |-> tool_result(u, s)],
           SelectSeq(tool_uses_of(content),
                     LAMBDA u : u.name \in {"check_deployed_site", "test_javascript_functionality",
                                            "compare_deployments", "check_common_issues"}))
tool_results(content, s) ==
    MapSeq(LAMBDA u : [type |-> "tool_result", tool_use_id |-> u.id, content |-> tool_result(u, s)],
           tool_uses_of(content))

\* what one iteration prints
printed(n, content, s) ==
    << <<"[Iteration", ToString(n), "]">> >>
    \o (IF tool_uses_of(content) = <<>>
        THEN MapSeq(LAMBDA b : b.text, text_blocks_of(content))
        ELSE FlatMap(LAMBDA u : << <<"Using tool: ", u.name>>,
                                   <<"Input: ">> \o u.input,
                                   <<"Result: ">> \o First200(u, s, tool_result(u, s)) >>,
                     tool_uses_of(content)))

\* str.lower() and the substring test, on the words of the model
Lower(w) ==
    CASE w = "Missing" -> "missing"
      [] w = "elementsMissing" -> "elementsmissing"
      [] w = "Missing expected element: #" -> "missing expected element: #"
      [] w = "Missing critical elements: " -> "missing critical elements: "
      [] w = "ISSUES_DETECTED" -> "issues_detected"
      [] OTHER -> w
WordHas(w, pat) ==
    CASE pat = "ISSUES_DETECTED" -> w = "ISSUES_DETECTED"
      [] pat = "Missing" ->
            w \in {"Missing", "elementsMissing", "Missing expected element: #",
                   "Missing critical elements: "}
      [] pat = "missing" ->
            w \in {"missing", "missingIds", "elementsmissing", "missing expected element: #",
                   "missing critical elements: "}
      [] OTHER -> FALSE
\* pat in report
Contains(rep, pat) ==
    \E i \in 1..Len(rep) : \E j \in 1..Len(rep[i]) : WordHas(rep[i][j], pat)
ContainsLower(rep, pat) ==
    \E i \in 1..Len(rep) : \E j \in 1..Len(rep[i]) : WordHas(Lower(rep[i][j]), pat)

\* the exit status of python agent.py once run_agent has returned
agent_exit(rep) ==
    IF Contains(rep, "ISSUES_DETECTED") \/ Contains(rep, "Missing") \/ ContainsLower(rep, "missing")
    THEN 1 ELSE 0

user_message == <<"Analyze the deployment at ", Url>>

(***************************************************************************)
(* State machine                                                           *)
(***************************************************************************)
NoResult == [op |-> "none"]
\* the last operation left baseline.json alone
NotWritten == [done |-> FALSE]

Init ==
    /\ site \in {[up |-> TRUE, html |-> h] : h \in StartPages}
    /\ baseline_file = [exists |-> FALSE]
    /\ written = NotWritten
    /\ now = 0
    /\ deploys = 0
    /\ result = NoResult
    /\ report = <<>>
    /\ exit_status = NotRun
    /\ messages = <<>>
    /\ iteration = 0
    /\ pc = "Idle"
    /\ agent_exits = {}

\* time passes between two operations
Tick ==
    /\ now < MaxTime
    /\ now' = now + 1
    /\ UNCHANGED <<site, baseline_file, written, deploys, result, report, exit_status, agentVars>>

\* a deployment that drops one element of the page
DeployRemoval ==
    /\ deploys < MaxDeploys
    /\ site.up
    /\ \E i \in 1..Len(site.html) :
          site' = [site EXCEPT !.html = RemoveAt(site.html, i)]
    /\ deploys' = deploys + 1
    /\ result' = NoResult
    /\ report' = <<>>
    /\ exit_status' = NotRun
    /\ agent_exits' = {}
    /\ written' = NotWritten
    /\ UNCHANGED <<baseline_file, now, messages, iteration, pc>>

\* a deployment that adds one element at the end of the page
DeployAddition ==
    /\ deploys < MaxDeploys
    /\ site.up
    /\ \E e \in Additions :
          site' = [site EXCEPT !.html = Append(site.html, e)]
    /\ deploys' = deploys + 1
    /\ result' = NoResult
    /\ report' = <<>>
    /\ exit_status' = NotRun
    /\ agent_exits' = {}
    /\ written' = NotWritten
    /\ UNCHANGED <<baseline_file, now, messages, iteration, pc>>

\* the deployment stops answering: requests.get raises
Outage ==
    /\ deploys < MaxDeploys
    /\ site.up
    /\ site' = [site EXCEPT !.up = FALSE]
    /\ deploys' = deploys + 1
    /\ result' = NoResult
    /\ report' = <<>>
    /\ exit_status' = NotRun
    /\ agent_exits' = {}
    /\ written' = NotWritten
    /\ UNCHANGED <<baseline_file, now, messages, iteration, pc>>

\* mutant: a capture does not replace a baseline that exists
capture_baseline_keeps_existing ==
    /\ IF site.up
       THEN /\ baseline_file' =
                 IF baseline_file.exists THEN baseline_file
                 ELSE [exists |-> TRUE, content |-> json_dump(Baseline(site.html, now))]
            /\ written' = [done |-> TRUE, over |-> baseline_file]
            /\ result' = [op |-> "capture_baseline", ok |-> TRUE, baseline |-> Baseline(site.html, now)]
       ELSE /\ baseline_file' = baseline_file
            /\ written' = NotWritten
            /\ result' = [op |-> "capture_baseline", ok |-> FALSE]
    /\ report' = <<>>
    /\ exit_status' = NotRun
    /\ UNCHANGED <<site, now, deploys, agentVars>>

\* mutant: a capture that fails has already emptied the file
capture_baseline_truncates ==
    /\ IF site.up
       THEN /\ baseline_file' = [exists |-> TRUE, content |-> json_dump(Baseline(site.html, now))]
            /\ written' = [done |-> TRUE, over |-> baseline_file]
            /\ result' = [op |-> "capture_baseline", ok |-> TRUE, baseline |-> Baseline(site.html, now)]
       ELSE /\ baseline_file' = [exists |-> FALSE]
            /\ written' = [done |-> TRUE, over |-> baseline_file]
            /\ result' = [op |-> "capture_baseline", ok |-> FALSE]
    /\ report' = <<>>
    /\ exit_status' = NotRun
    /\ UNCHANGED <<site, now, deploys, agentVars>>

capture_baseline ==
    /\ IF site.up
       THEN /\ baseline_file' = [exists |-> TRUE, content |-> json_dump(Baseline(site.html, now))]
            /\ written' = [done |-> TRUE, over |-> baseline_file]
            /\ result' = [op |-> "capture_baseline", ok |-> TRUE, baseline |-> Baseline(site.html, now)]
       ELSE /\ baseline_file' = baseline_file
            /\ written' = NotWritten
            /\ result' = [op |-> "capture_baseline", ok |-> FALSE]
    /\ report' = <<>>
    /\ exit_status' = NotRun
    /\ UNCHANGED <<site, now, deploys, agentVars>>

compare_with_baseline ==
    /\ result' \in CompareResults(baseline_file, site)
    /\ report' = <<>>
    /\ exit_status' = NotRun
    /\ written' = NotWritten
    /\ UNCHANGED <<site, baseline_file, now, deploys, agentVars>>

\* python baseline.py capture | python baseline.py: neither branch sets an exit status
baseline_main ==
    /\ \/ /\ baseline_file' =
               IF site.up
               THEN [exists |-> TRUE, content |-> json_dump(Baseline(site.html, now))]
               ELSE baseline_file
          /\ written' = IF site.up THEN [done |-> TRUE, over |-> baseline_file] ELSE NotWritten
          /\ result' =
               IF site.up
               THEN [op |-> "capture_baseline", ok |-> TRUE, baseline |-> Baseline(site.html, now)]
               ELSE [op |-> "capture_baseline", ok |-> FALSE]
       \/ /\ result' \in CompareResults(baseline_file, site)
          /\ baseline_file' = baseline_file
          /\ written' = NotWritten
    /\ report' = <<>>
    /\ exit_status' = 0
    /\ UNCHANGED <<site, now, deploys, agentVars>>

\* a deployment that adds one piece of content at the end of the page
DeployContent ==
    /\ deploys < MaxDeploys
    /\ site.up
    /\ \E e \in Contents :
          site' = [site EXCEPT !.html = Append(site.html, e)]
    /\ deploys' = deploys + 1
    /\ result' = NoResult
    /\ report' = <<>>
    /\ exit_status' = NotRun
    /\ agent_exits' = {}
    /\ written' = NotWritten
    /\ UNCHANGED <<baseline_file, now, messages, iteration, pc>>

\* the texts a deployment may give to a title or a button
Relabels == {"", " ", "Clear"}

\* a deployment that changes the text of the title or of a button
DeployText ==
    /\ deploys < MaxDeploys
    /\ site.up
    /\ \E i \in 1..Len(site.html) : \E t \in Relabels :
          /\ site.html[i].tag \in {"title", "button"}
          /\ site.html[i].text # t
          /\ site' = [site EXCEPT !.html[i].text = t]
    /\ deploys' = deploys + 1
    /\ result' = NoResult
    /\ report' = <<>>
    /\ exit_status' = NotRun
    /\ agent_exits' = {}
    /\ written' = NotWritten
    /\ UNCHANGED <<baseline_file, now, messages, iteration, pc>>

check_quality_issues ==
    /\ result' \in QualityResults(site)
    /\ report' = <<>>
    /\ exit_status' = NotRun
    /\ written' = NotWritten
    /\ UNCHANGED <<site, baseline_file, now, deploys, agentVars>>

\* python quality_checks.py
quality_main ==
    /\ result' \in QualityResults(site)
    /\ report' = format_quality_report(result')
    /\ exit_status' = quality_exit(result')
    /\ written' = NotWritten
    /\ UNCHANGED <<site, baseline_file, now, deploys, agentVars>>

\* a deployment that drops every element of one tag
StrippedTags == {"button", "script"}
DeployStrip ==
    /\ deploys < MaxDeploys
    /\ site.up
    /\ \E tag \in StrippedTags :
          /\ \E i \in 1..Len(site.html) : site.html[i].tag = tag
          /\ site' = [site EXCEPT !.html = SelectSeq(site.html, LAMBDA e : e.tag # tag)]
    /\ deploys' = deploys + 1
    /\ result' = NoResult
    /\ report' = <<>>
    /\ exit_status' = NotRun
    /\ agent_exits' = {}
    /\ written' = NotWritten
    /\ UNCHANGED <<baseline_file, now, messages, iteration, pc>>

\* compare_deployments(current_url) called as a function
call_compare_deployments ==
    /\ result' = [op |-> "compare_deployments", output |-> compare_deployments(site)]
    /\ report' = <<>>
    /\ exit_status' = NotRun
    /\ written' = NotWritten
    /\ UNCHANGED <<site, baseline_file, now, deploys, agentVars>>

\* python agent.py: run_agent is called and sends the first request
agent_main ==
    /\ pc # "Thinking"
    /\ messages' = << [role |-> "user", content |-> user_message] >>
    /\ iteration' = 0
    /\ pc' = "Thinking"
    /\ result' = NoResult
    /\ report' = <<>>
    /\ exit_status' = NotRun
    /\ written' = NotWritten
    /\ UNCHANGED <<site, baseline_file, now, deploys, agent_exits>>

\* python agent.py, started where no run has been made yet
agent_started ==
    /\ pc = "Idle"
    /\ agent_main

\* the model answers: one iteration of the loop and, when the loop ends, the
\* rest of the command line
agent_response ==
    /\ pc = "Thinking"
    /\ iteration < max_iterations
    /\ \E content \in Responses :
        LET n == iteration + 1
            out == report \o printed(n, content, site)
            assistant == [role |-> "assistant", content |-> content]
        IN /\ iteration' = n
           /\ report' = out
           /\ IF tool_uses_of(content) = <<>>
              THEN /\ messages' = Append(messages, assistant)
                   /\ pc' = "Done"
              ELSE /\ messages' = messages \o
                          <<assistant, [role |-> "user", content |-> tool_results(content, site)]>>
                   /\ pc' = IF n = max_iterations THEN "IterationLimitReached" ELSE "Thinking"
           /\ IF pc' = "Thinking"
              THEN UNCHANGED <<exit_status, agent_exits>>
              ELSE /\ exit_status' = agent_exit(out)
                   /\ agent_exits' = agent_exits \cup {agent_exit(out)}
    /\ written' = NotWritten
    /\ UNCHANGED <<site, baseline_file, now, deploys, result>>

\* client.messages.create raises: the finally block saves the report and the
\* exception ends the process
agent_api_error ==
    /\ pc = "Thinking"
    /\ iteration < max_iterations
    /\ iteration' = iteration + 1
    /\ pc' = "Failed"
    /\ exit_status' = 1
    /\ agent_exits' = agent_exits \cup {1}
    /\ written' = NotWritten
    /\ UNCHANGED <<site, baseline_file, now, deploys, result, report, messages>>

Next ==
    \/ DeployRemoval
    \/ DeployAddition
    \/ Outage
    \/ capture_baseline
    \/ compare_with_baseline
    \/ baseline_main

Spec == Init /\ [][Next]_vars

QualityNext ==
    \/ DeployRemoval
    \/ DeployContent
    \/ Outage
    \/ check_quality_issues
    \/ quality_main

QualitySpec == Init /\ [][QualityNext]_vars

\* the two checks as functions, on every deployment of the model
EvaluationNext ==
    \/ DeployRemoval
    \/ DeployAddition
    \/ DeployContent
    \/ DeployText
    \/ Outage
    \/ capture_baseline
    \/ compare_with_baseline
    \/ check_quality_issues

EvaluationSpec == Init /\ [][EvaluationNext]_vars

\* captures and comparisons over time
StoreNext ==
    \/ Tick
    \/ DeployAddition
    \/ Outage
    \/ capture_baseline
    \/ compare_with_baseline

StoreSpec == Init /\ [][StoreNext]_vars

\* the compare_deployments tool on every deployment of the model
ToolNext ==
    \/ DeployRemoval
    \/ DeployStrip
    \/ DeployAddition
    \/ Outage
    \/ call_compare_deployments

ToolSpec == Init /\ [][ToolNext]_vars

AgentNext ==
    \/ agent_main
    \/ agent_response
    \/ agent_api_error

AgentSpec == Init /\ [][AgentNext]_vars

\* python agent.py run once; client.messages.create returns or raises
AgentRunNext ==
    \/ agent_started
    \/ agent_response
    \/ agent_api_error

AgentLiveSpec == Init /\ [][AgentRunNext]_vars /\ WF_vars(agent_response \/ agent_api_error)


(***************************************************************************)
(* Claims about the baseline comparison                                    *)
(***************************************************************************)
\* the baseline document as stored, and the page as served
Stored == json_load(baseline_file.content)
PageElems == Range(Flatten(site.html))
NonEmptyId(e) == HasAttr(e, "id") /\ Get(e, "id", None) # ""
PageButtonIds == {Get(e, "id", None) : e \in {x \in PageElems : x.tag = "button" /\ NonEmptyId(x)}}
PageIds == {Get(e, "id", None) : e \in {x \in PageElems : NonEmptyId(x)}}
PageScripts == {Get(e, "src", "inline") : e \in {x \in PageElems : x.tag = "script"}}
PageStyles ==
    {Get(e, "href", None) : e \in {x \in PageElems : x.tag = "link" /\ <<"rel", "stylesheet">> \in x.attrs}}
StoredButtonIds == {b.id : b \in {x \in Range(Stored.structure.buttons) : x.id \notin {None, ""}}}
StoredIds == Range(Stored.structure.critical_ids)
StoredScripts == Range(Stored.structure.scripts)
StoredStyles == Range(Stored.structure.stylesheets)

\* a comparison of a fetched page with a stored baseline has returned
Compared == result.op = "compare_with_baseline" /\ baseline_file.exists /\ site.up
Completed == Compared /\ result.status \in {"HEALTHY", "REGRESSIONS_FOUND"}
FindingsOf(type) == SelectSeq(result.regressions, LAMBDA r : r.type = type)

\* exactly one finding of the type, of the severity, listing each member of d once
OneFinding(type, severity, d) ==
    /\ Len(FindingsOf(type)) = 1
    /\ FindingsOf(type)[1].severity = severity
    /\ Range(FindingsOf(type)[1].items) = d
    /\ Len(FindingsOf(type)[1].items) = Cardinality(d)
FindingIff(type, severity, d) ==
    IF d # {} THEN OneFinding(type, severity, d) ELSE FindingsOf(type) = <<>>

\* C1: a completed comparison reports REGRESSIONS_FOUND exactly when a finding
\* is CRITICAL or HIGH; findings of MEDIUM severity alone leave it HEALTHY
C1_VerdictIffCriticalOrHigh ==
    Completed =>
        (result.status = "REGRESSIONS_FOUND"
            <=> \E r \in Range(result.regressions) : r.severity \in {"CRITICAL", "HIGH"})

\* C5: one HIGH MISSING_BUTTONS finding listing exactly the baseline button ids
\* the page lacks, when there are any, and none otherwise
C5_MissingButtonsFinding ==
    Compared => FindingIff("MISSING_BUTTONS", "HIGH", StoredButtonIds \ PageButtonIds)

\* C5, on the comparisons in which no join raises
C5_MissingButtonsFindingUnlessError ==
    Compared /\ result.status # "ERROR"
        => FindingIff("MISSING_BUTTONS", "HIGH", StoredButtonIds \ PageButtonIds)

\* Scenario 1: the baseline has the buttons increment, decrement and reset, the
\* page has lost the increment button and nothing else differs
Scenario1 ==
    /\ Compared
    /\ StoredButtonIds = {"increment", "decrement", "reset"}
    /\ PageButtonIds = {"decrement", "reset"}
    /\ PageIds = StoredIds \ {"increment"}
    /\ PageScripts = StoredScripts
    /\ PageStyles = StoredStyles
MissingElementFindings ==
    SelectSeq(result.regressions, LAMBDA r : r.type \in {"MISSING_BUTTONS", "MISSING_ELEMENTS"})

\* C6 as claimed: Scenario 1 yields exactly one missing-element finding, HIGH,
\* listing increment, and the comparison reports regressions
C6_Scenario1OneFinding ==
    Scenario1 =>
        /\ Len(MissingElementFindings) = 1
        /\ MissingElementFindings[1].severity = "HIGH"
        /\ MissingElementFindings[1].items = <<"increment">>
        /\ result.status = "REGRESSIONS_FOUND"

\* C6 as amended: Scenario 1 yields exactly two findings, MISSING_BUTTONS and
\* MISSING_ELEMENTS, both HIGH and both listing exactly increment, and the
\* comparison reports regressions
C6_Scenario1TwoFindings ==
    Scenario1 =>
        /\ Len(result.regressions) = 2
        /\ OneFinding("MISSING_BUTTONS", "HIGH", {"increment"})
        /\ OneFinding("MISSING_ELEMENTS", "HIGH", {"increment"})
        /\ result.status = "REGRESSIONS_FOUND"
C6_Witness == Scenario1 /\ result.status = "REGRESSIONS_FOUND"

\* C7: a baseline button id absent from the whole page is listed once by the
\* MISSING_BUTTONS finding and once by the MISSING_ELEMENTS finding
ListsOnce(type, id) ==
    /\ Len(FindingsOf(type)) = 1
    /\ Cardinality({i \in 1..Len(FindingsOf(type)[1].items) : FindingsOf(type)[1].items[i] = id}) = 1
C7_BothFindingsEmitted ==
    Compared =>
        \A id \in StoredButtonIds \ PageIds :
            ListsOnce("MISSING_BUTTONS", id) /\ ListsOnce("MISSING_ELEMENTS", id)
C7_BothFindingsEmittedUnlessError ==
    Compared /\ result.status # "ERROR" =>
        \A id \in StoredButtonIds \ PageIds :
            ListsOnce("MISSING_BUTTONS", id) /\ ListsOnce("MISSING_ELEMENTS", id)

\* C8: when baseline script locations are missing from the page, one CRITICAL
\* MISSING_SCRIPTS finding lists exactly them and the comparison reports
\* regressions
C8_MissingScriptsFinding ==
    Compared /\ StoredScripts \ PageScripts # {} =>
        /\ OneFinding("MISSING_SCRIPTS", "CRITICAL", StoredScripts \ PageScripts)
        /\ result.status = "REGRESSIONS_FOUND"
C8_MissingScriptsFindingUnlessError ==
    Compared /\ result.status # "ERROR" /\ StoredScripts \ PageScripts # {} =>
        /\ OneFinding("MISSING_SCRIPTS", "CRITICAL", StoredScripts \ PageScripts)
        /\ result.status = "REGRESSIONS_FOUND"

\* C9: one MEDIUM MISSING_STYLES finding listing exactly the baseline stylesheet
\* locations the page lacks, a link without href included, and none otherwise
C9_MissingStylesFinding ==
    Compared => FindingIff("MISSING_STYLES", "MEDIUM", StoredStyles \ PageStyles)

\* C10: with no critical ids supplied the check takes every id recorded in the
\* baseline: one HIGH MISSING_ELEMENTS finding lists exactly those the page
\* lacks, when there are any, and none otherwise
C10_MissingIdsFinding ==
    Compared => FindingIff("MISSING_ELEMENTS", "HIGH", StoredIds \ PageIds)
C10_MissingIdsFindingUnlessError ==
    Compared /\ result.status # "ERROR"
        => FindingIff("MISSING_ELEMENTS", "HIGH", StoredIds \ PageIds)

(***************************************************************************)
(* Claims about the quality checks and the exit status                     *)
(***************************************************************************)
Doc == Flatten(site.html)
Where(P(_)) == {i \in 1..Len(Doc) : P(Doc[i])}
QualityChecked == result.op = "check_quality_issues" /\ site.up

\* Scenario 5: one image without alt, one input with an id and no label, and
\* nothing else on the page that a rule of severity low or above reports
Scenario5 ==
    /\ QualityChecked
    /\ Cardinality(Where(LAMBDA e : e.tag = "img")) = 1
    /\ \A i \in Where(LAMBDA e : e.tag = "img") : ~HasAttr(Doc[i], "alt")
    /\ Cardinality(Where(LAMBDA e : e.tag = "input")) = 1
    /\ \A i \in Where(LAMBDA e : e.tag = "input") :
          /\ NonEmptyId(Doc[i])
          /\ <<"type", "number">> \in Doc[i].attrs
          /\ ~\E l \in Where(LAMBDA e : e.tag = "label") :
                 <<"for", Get(Doc[i], "id", None)>> \in Doc[l].attrs
    /\ \A i \in Where(LAMBDA e : e.tag = "button") : Doc[i].text \notin {"", " "}
    /\ Where(LAMBDA e : e.tag = "title") # {}
    /\ \A i \in Where(LAMBDA e : e.tag = "title") : Doc[i].text \notin {"", " "}
    /\ \A i, j \in Where(LAMBDA e : HasAttr(e, "id")) :
          i # j => Get(Doc[i], "id", None) # Get(Doc[j], "id", None)
    /\ Where(LAMBDA e : e.tag = "a") = {}
    /\ \E i \in Where(LAMBDA e : e.tag = "meta") : <<"name", "viewport">> \in Doc[i].attrs
    /\ \A i \in Where(LAMBDA e : e.tag = "html") : <<"lang", "en">> \in Doc[i].attrs

\* C2: in Scenario 5 exactly two findings are reported, both of medium
\* severity, the summary counts two medium findings and the status is not an
\* issues-found one
C2_Scenario5StaysHealthy ==
    Scenario5 =>
        /\ Len(result.issues.medium) = 2
        /\ total_issues(result.issues) = 2
        /\ result.summary.medium = 2
        /\ result.status = "QUALITY_OK"

\* the verdict of a returned result: Error when the check could not be made,
\* IssuesDetected when a finding is critical or high, Healthy otherwise
Verdict(res) ==
    IF res.status = "ERROR" THEN "Error"
    ELSE IF res.op = "check_quality_issues"
    THEN (IF res.issues.critical # <<>> \/ res.issues.high # <<>>
          THEN "IssuesDetected" ELSE "Healthy")
    ELSE (IF \E r \in Range(res.regressions) : r.severity \in {"CRITICAL", "HIGH"}
          THEN "IssuesDetected" ELSE "Healthy")

\* C3: a command line run exits with status 0 exactly when its verdict is
\* Healthy; a run that could not check never exits with 0
C3_ExitStatusFollowsVerdict ==
    /\ exit_status # NotRun
    /\ result.op \in {"check_quality_issues", "compare_with_baseline"}
    /\ result.status # "NO_BASELINE"
    => (exit_status = 0 <=> Verdict(result) = "Healthy")

(***************************************************************************)
(* Claims about the agent                                                  *)
(***************************************************************************)
\* C4: the agent runs completed on one deployment, whose deterministic
\* findings are the same, all end with the same exit status whatever the
\* model answered
C4_ExitIndependentOfModel == Cardinality(agent_exits) <= 1


(***************************************************************************)
(* Claims about additions, identical pages and a missing baseline          *)
(***************************************************************************)
ImprovementsOf(type) == SelectSeq(result.improvements, LAMBDA r : r.type = type)
\* one improvement of the type listing each member of d once, when d is not
\* empty, and none otherwise
ImprovementIff(type, d) ==
    IF d = {} THEN ImprovementsOf(type) = <<>>
    ELSE /\ Len(ImprovementsOf(type)) = 1
         /\ Range(ImprovementsOf(type)[1].items) = d
         /\ Len(ImprovementsOf(type)[1].items) = Cardinality(d)

\* the page differs from the baseline only by button ids or element ids it adds
OnlyAdditions ==
    /\ Compared
    /\ StoredButtonIds \subseteq PageButtonIds
    /\ StoredIds \subseteq PageIds
    /\ PageScripts = StoredScripts
    /\ PageStyles = StoredStyles

\* C11: button ids and element ids the page adds to the baseline are listed as
\* improvements only: the regression list is empty and the status is HEALTHY
C11_AdditionsNeverBlock ==
    OnlyAdditions =>
        /\ result.status = "HEALTHY"
        /\ result.regressions = <<>>
        /\ ImprovementIff("NEW_BUTTONS", PageButtonIds \ StoredButtonIds)
        /\ ImprovementIff("NEW_ELEMENTS", PageIds \ StoredIds)
C11_Witness ==
    /\ OnlyAdditions
    /\ PageButtonIds \ StoredButtonIds # {}
    /\ result.status = "HEALTHY"
    /\ Len(result.improvements) = 2

\* the baseline file holds what a capture of the page as served writes
SameSnapshot ==
    /\ Compared
    /\ baseline_file.content = json_dump(Baseline(site.html, now))

\* C13: comparing a page with the baseline captured from it yields no
\* regression and no improvement, and the status is HEALTHY, also when the
\* page has buttons without id, inline scripts and stylesheet links without
\* href
C13_SelfComparisonIsEmpty ==
    SameSnapshot =>
        /\ result.status = "HEALTHY"
        /\ result.regressions = <<>>
        /\ result.improvements = <<>>
C13_Witness ==
    /\ SameSnapshot
    /\ result.status = "HEALTHY"
    /\ \E e \in PageElems : e.tag = "button" /\ ~HasAttr(e, "id")
    /\ \E e \in PageElems : e.tag = "script" /\ ~HasAttr(e, "src")
    /\ \E e \in PageElems : e.tag = "link" /\ ~HasAttr(e, "href")

(***************************************************************************)
(* Claims about changed button texts                                       *)
(***************************************************************************)
\* the ids of the buttons that keep their id and whose visible text differs
\* from the text recorded in the baseline
RelabelledIds ==
    {id \in StoredButtonIds \cap PageButtonIds :
        \E b \in Range(Stored.structure.buttons) :
        \E e \in {x \in PageElems : x.tag = "button" /\ NonEmptyId(x)} :
            /\ b.id = id
            /\ Get(e, "id", None) = id
            /\ b.text # Strip(e.text)}
ReportedTypes == {"MISSING_BUTTONS", "MISSING_ELEMENTS", "MISSING_SCRIPTS", "MISSING_STYLES"}

\* C12: when a button keeps its id and its text has changed, a completed
\* comparison holds a MEDIUM finding for the changed label, which is none of
\* the missing-item findings
C12_LabelChangeReported ==
    Completed /\ RelabelledIds # {} =>
        \E r \in Range(result.regressions) :
            r.severity = "MEDIUM" /\ r.type \notin ReportedTypes

(***************************************************************************)
(* Claims about a missing baseline                                         *)
(***************************************************************************)
NonBlank(e) == e.text \notin {"", " "}
Buckets == {"critical", "high", "medium", "low", "warnings"}

\* a page on which no quality rule has anything to report
CleanPage ==
    /\ \A i \in Where(LAMBDA e : e.tag = "button") : NonBlank(Doc[i]) /\ NonEmptyId(Doc[i])
    /\ \A i \in Where(LAMBDA e : e.tag = "input") :
          \E l \in Where(LAMBDA e : e.tag = "label") :
              HasAttr(Doc[i], "id") /\ <<"for", Get(Doc[i], "id", None)>> \in Doc[l].attrs
    /\ \A i \in Where(LAMBDA e : e.tag = "img") :
          HasAttr(Doc[i], "alt") /\ <<"alt", "">> \notin Doc[i].attrs
    /\ Where(LAMBDA e : e.tag = "title") # {}
    /\ \A i \in Where(LAMBDA e : e.tag = "title") : NonBlank(Doc[i])
    /\ \A i, j \in Where(LAMBDA e : HasAttr(e, "id")) :
          i # j => Get(Doc[i], "id", None) # Get(Doc[j], "id", None)
    /\ \A i \in Where(LAMBDA e : e.tag = "a") :
          NonBlank(Doc[i]) \/ \E k \in Range(Doc[i].kids) : k.tag = "img"
    /\ \E i \in Where(LAMBDA e : e.tag = "meta") : <<"name", "viewport">> \in Doc[i].attrs
    /\ \A i \in Where(LAMBDA e : e.tag = "html") : <<"lang", "en">> \in Doc[i].attrs

EmptyTitle ==
    /\ Where(LAMBDA e : e.tag = "title") # {}
    /\ \A i \in Where(LAMBDA e : e.tag = "title") :
          (\A j \in Where(LAMBDA e : e.tag = "title") : i <= j) => Doc[i].text = ""

\* the comparison cannot be made: the page is not served, or a stylesheet
\* location that has to be reported is None
ComparisonFails ==
    /\ result.op = "compare_with_baseline"
    /\ baseline_file.exists
    /\ ~site.up \/ None \in StoredStyles \ PageStyles
\* the quality check cannot be made: the page is not served, or the text of
\* its title cannot be read
QualityCheckFails ==
    /\ result.op = "check_quality_issues"
    /\ ~site.up \/ EmptyTitle

\* C15: a check that fails returns ERROR, and a result of status ERROR has a
\* message and no finding at all, whatever had been found before the failure
C15_ErrorHasNoFindings ==
    /\ ComparisonFails \/ QualityCheckFails => result.status = "ERROR"
    /\ result.op = "compare_with_baseline" /\ result.status = "ERROR" =>
          /\ "message" \in DOMAIN result
          /\ result.regressions = <<>>
          /\ result.improvements = <<>>
    /\ result.op = "check_quality_issues" /\ result.status = "ERROR" =>
          /\ "message" \in DOMAIN result
          /\ \A b \in Buckets : result.issues[b] = <<>>
\* a comparison that had a missing button to report when it failed
C15_Witness ==
    /\ ComparisonFails
    /\ site.up
    /\ StoredButtonIds \ PageButtonIds # {}
    /\ result.status = "ERROR"

(***************************************************************************)
(* Claims about the quality rules                                          *)
(***************************************************************************)
Titles == Where(LAMBDA e : e.tag = "title")
\* the page has no title element, or the first one has no text or only blanks
TitleMissingOrBlank ==
    Titles = {} \/ \E i \in Titles : (\A j \in Titles : i <= j) /\ ~NonBlank(Doc[i])
IssuesOf(bucket, type) == SelectSeq(result.issues[bucket], LAMBDA i : i.type = type)
AllIssuesOf(type) ==
    IssuesOf("critical", type) \o IssuesOf("high", type) \o IssuesOf("medium", type)
        \o IssuesOf("low", type) \o IssuesOf("warnings", type)

\* C16: when the title rule throws, the run is not aborted: the result is not
\* ERROR, a warning records the failed rule, and the findings of the rules
\* before it (images without alt) and after it (missing viewport) are present
C16_RuleFailureIsContained ==
    QualityChecked /\ EmptyTitle =>
        /\ result.status # "ERROR"
        /\ result.issues.warnings # <<>>
        /\ (\E i \in Where(LAMBDA e : e.tag = "img") : ~HasAttr(Doc[i], "alt"))
              => IssuesOf("medium", "IMAGE_WITHOUT_ALT") # <<>>
        /\ (~\E i \in Where(LAMBDA e : e.tag = "meta") : <<"name", "viewport">> \in Doc[i].attrs)
              => IssuesOf("low", "MISSING_VIEWPORT") # <<>>

\* C17: a page without title, with an empty title or with a title of blanks
\* gets one high MISSING_PAGE_TITLE finding and the check does not end in
\* ERROR; a page whose title has text gets no such finding
C17_MissingOrEmptyTitleIsHigh ==
    QualityChecked =>
        IF TitleMissingOrBlank
        THEN /\ result.status # "ERROR"
             /\ Len(IssuesOf("high", "MISSING_PAGE_TITLE")) = 1
             /\ Len(AllIssuesOf("MISSING_PAGE_TITLE")) = 1
        ELSE AllIssuesOf("MISSING_PAGE_TITLE") = <<>>
\* C17, on the pages whose title element, if any, has a text child
C17_MissingOrEmptyTitleIsHighUnlessNoText ==
    QualityChecked /\ ~EmptyTitle =>
        IF TitleMissingOrBlank
        THEN /\ result.status # "ERROR"
             /\ Len(IssuesOf("high", "MISSING_PAGE_TITLE")) = 1
             /\ Len(AllIssuesOf("MISSING_PAGE_TITLE")) = 1
        ELSE AllIssuesOf("MISSING_PAGE_TITLE") = <<>>

\* the id values that two or more elements of the page carry
PageDuplicateIds ==
    {Get(Doc[i], "id", None) : i \in
        {k \in Where(LAMBDA e : HasAttr(e, "id")) :
            \E j \in Where(LAMBDA e : HasAttr(e, "id")) :
                j # k /\ Get(Doc[j], "id", None) = Get(Doc[k], "id", None)}}
DuplicateIdFindings ==
    /\ Len(AllIssuesOf("DUPLICATE_ID")) = Cardinality(PageDuplicateIds)
    /\ IssuesOf("critical", "DUPLICATE_ID") = AllIssuesOf("DUPLICATE_ID")
    /\ \A id \in PageDuplicateIds :
          Len(SelectSeq(AllIssuesOf("DUPLICATE_ID"), LAMBDA i : i.element = <<"#", id>>)) = 1
    /\ PageDuplicateIds # {} => result.status = "QUALITY_ISSUES_FOUND"

\* C18: one critical DUPLICATE_ID finding with subject #id for every id value
\* carried by two or more elements, none for the other ids, and a page with a
\* duplicated id is reported as having issues
C18_OneFindingPerDuplicatedId ==
    QualityChecked => DuplicateIdFindings
\* C18, on the checks that do not end in ERROR
C18_OneFindingPerDuplicatedIdUnlessError ==
    QualityChecked /\ result.status # "ERROR" => DuplicateIdFindings

\* C19: an image gets a medium IMAGE_WITHOUT_ALT finding exactly when it has no
\* alt attribute: the findings of a completed check are as many as the images
\* without the attribute, and an image with alt="" gets none
C19_ImageFindingIffNoAltAttribute ==
    QualityChecked /\ result.status # "ERROR" =>
        /\ Len(AllIssuesOf("IMAGE_WITHOUT_ALT"))
              = Cardinality({i \in Where(LAMBDA e : e.tag = "img") : ~HasAttr(Doc[i], "alt")})
        /\ IssuesOf("medium", "IMAGE_WITHOUT_ALT") = AllIssuesOf("IMAGE_WITHOUT_ALT")

(***************************************************************************)
(* Claims about the order of the findings                                  *)
(***************************************************************************)
Rank(severity) ==
    CASE severity = "CRITICAL" -> 6
      [] severity = "HIGH" -> 5
      [] severity = "MEDIUM" -> 4
      [] severity = "LOW" -> 3
      [] severity = "WARNING" -> 2
      [] OTHER -> 1

\* C20: in the regression list a comparison returns, no finding of lower
\* severity rank precedes one of higher rank
C20_FindingsOrderedBySeverity ==
    result.op = "compare_with_baseline" =>
        \A i, j \in 1..Len(result.regressions) :
            i < j => Rank(result.regressions[i].severity) >= Rank(result.regressions[j].severity)

\* C20, for the quality report: the sections of the saved report follow one
\* another from critical down to the warnings
SectionHeads ==
    << <<"CRITICAL ISSUES">>, <<"HIGH SEVERITY ISSUES">>, <<"MEDIUM SEVERITY ISSUES">>,
       <<"LOW SEVERITY ISSUES">>, <<"WARNINGS">> >>
C20_QualityReportOrdered ==
    \A i, j \in 1..Len(report) : \A a, b \in 1..Len(SectionHeads) :
        report[i] = SectionHeads[a] /\ report[j] = SectionHeads[b] /\ i < j => a < b

(***************************************************************************)
(* Claims about the summary                                                *)
(***************************************************************************)
\* C21: the summary of a completed comparison has one count for each severity
\* its findings carry, each count is the number of findings of that severity
\* and the counts add up to the number of findings
C21_SummaryCountsEveryFinding ==
    Completed =>
        /\ result.summary.critical_issues = CountSeverity(result.regressions, "CRITICAL")
        /\ result.summary.high_issues = CountSeverity(result.regressions, "HIGH")
        /\ result.summary.critical_issues + result.summary.high_issues = Len(result.regressions)

\* C21, for the quality check: one count for each list of findings, equal to
\* its length, the warnings included
C21_QualitySummaryCounts ==
    QualityChecked /\ result.status # "ERROR" =>
        /\ \A b \in Buckets : result.summary[b] = Len(result.issues[b])
        /\ result.summary.critical + result.summary.high + result.summary.medium
              + result.summary.low + result.summary.warnings
           = Len(result.issues.critical) + Len(result.issues.high) + Len(result.issues.medium)
              + Len(result.issues.low) + Len(result.issues.warnings)

(***************************************************************************)
(* Claims about the baseline file                                          *)
(***************************************************************************)
\* a capture has just returned a baseline
Captured == result.op = "capture_baseline" /\ result.ok
\* the capture that has just returned replaced a baseline of other content
Overwrote ==
    /\ Captured
    /\ written.done
    /\ written.over.exists
    /\ written.over.content # baseline_file.content

\* C22: after a capture the file holds one baseline, the one just captured:
\* load_baseline returns it, and the baseline it replaced only if the two are
\* the same document
C22_LastCaptureWins ==
    Captured =>
        /\ load_baseline(baseline_file).found
        /\ load_baseline(baseline_file).value = result.baseline
        /\ Overwrote => load_baseline(baseline_file).value # json_load(written.over.content)
C22_Witness ==
    /\ Overwrote
    /\ load_baseline(baseline_file).value.timestamp # json_load(written.over.content).timestamp
    /\ load_baseline(baseline_file).value.structure # json_load(written.over.content).structure

StructureFields ==
    {"title", "scripts", "stylesheets", "buttons", "inputs", "critical_ids", "element_counts"}
HasRepetition(s) == \E i, j \in 1..Len(s) : i # j /\ s[i] = s[j]

Recaptured ==
    /\ Captured
    /\ result'.op = "capture_baseline"
    /\ result'.ok
    /\ site' = site

C28_FailedCaptureKeepsBaseline ==
    [][~site.up /\ result'.op = "capture_baseline" =>
          /\ result' = [op |-> "capture_baseline", ok |-> FALSE]
          /\ baseline_file' = baseline_file
          /\ load_baseline(baseline_file') = load_baseline(baseline_file)]_vars
\* a failed capture after a successful one
C28_Witness ==
    /\ result.op = "capture_baseline"
    /\ ~result.ok
    /\ load_baseline(baseline_file).found

(***************************************************************************)
(* Claims about the agent loop                                             *)
(***************************************************************************)
\* the positions of the model's responses in the history, and those that ask
\* for tools
AssistantAt == {i \in 1..Len(messages) : messages[i].role = "assistant"}
AsksTools(i) == \E k \in 1..Len(messages[i].content) : messages[i].content[k].type = "tool_use"
Finished == {"Done", "IterationLimitReached", "Failed"}

LoopBounded ==
    /\ iteration <= 10
    /\ Cardinality(AssistantAt) <= iteration
    /\ pc = "Thinking" => iteration < 10
    /\ pc \in {"Done", "IterationLimitReached"} => Cardinality(AssistantAt) = iteration
    /\ pc = "Done" =>
          /\ messages[Len(messages)].role = "assistant"
          /\ \A i \in AssistantAt : AsksTools(i) <=> i # Len(messages)
    /\ pc = "IterationLimitReached" =>
          /\ iteration = 10
          /\ \A i \in AssistantAt : AsksTools(i)
    /\ \A i \in 2..Len(messages) :
          messages[i].role = "user" => messages[i - 1].role = "assistant" /\ AsksTools(i - 1)

ToolUsesAt(i) ==
    [k \in 1..Cardinality({j \in 1..Len(messages[i].content) : messages[i].content[j].type = "tool_use"})
        |-> messages[i].content[
               CHOOSE j \in 1..Len(messages[i].content) :
                   /\ messages[i].content[j].type = "tool_use"
                   /\ Cardinality({h \in 1..j : messages[i].content[h].type = "tool_use"}) = k]]
KnownTools ==
    {"check_deployed_site", "test_javascript_functionality", "compare_deployments",
     "check_common_issues"}

\* C26: the history starts with the user message and alternates user and
\* assistant; the user message after a response with tool_use blocks holds one
\* tool_result for each of them, in their order and with their ids, the one
\* for a tool of unknown name saying so
C26_HistoryAlternatesAndAnswersEveryToolUse ==
    /\ \A i \in 1..Len(messages) :
          messages[i].role = IF i % 2 = 1 THEN "user" ELSE "assistant"
    /\ messages # <<>> => messages[1].content = user_message
    /\ \A i \in AssistantAt :
          AsksTools(i) /\ i < Len(messages) =>
              /\ Len(messages[i + 1].content) = Len(ToolUsesAt(i))
              /\ \A k \in 1..Len(ToolUsesAt(i)) :
                    /\ messages[i + 1].content[k].type = "tool_result"
                    /\ messages[i + 1].content[k].tool_use_id = ToolUsesAt(i)[k].id
                    /\ ToolUsesAt(i)[k].name \notin KnownTools =>
                          messages[i + 1].content[k].content
                              = <<"Unknown tool: ", ToolUsesAt(i)[k].name>>
\* a response that asked for an unknown tool has been answered and the loop
\* has gone on
C26_Witness ==
    /\ Len(messages) >= 5
    /\ \E k \in 1..Len(messages[3].content) :
          /\ messages[3].content[k].type = "tool_result"
          /\ messages[3].content[k].content = <<"Unknown tool: ", "take_screenshot">>
    /\ \A i \in 1..Len(messages) :
          messages[i].role = IF i % 2 = 1 THEN "user" ELSE "assistant"

(***************************************************************************)
(* Claims about the compare_deployments tool                               *)
(***************************************************************************)
\* the values between two keys of the document the tool has returned
Position(key) == CHOOSE i \in 1..Len(result.output) : result.output[i] = key
Between(key, next) == SubSeq(result.output, Position(key) + 1, Position(next) - 1)
FoundIds == Between("foundIds", "missingIds")
MissingIds == Between("missingIds", "breakingChanges")
BreakingChanges == Between("breakingChanges", "status")
ToolStatus == result.output[Position("status") + 1]
ToolAnswered == result.op = "compare_deployments" /\ site.up
NoScripts == ~\E e \in PageElems : e.tag = "script"
NoButtons == ~\E e \in PageElems : e.tag = "button"

\* C27: foundIds and missingIds split count, increment, decrement and reset
\* by whether the page has an element of that id; the status is
\* ISSUES_DETECTED exactly when an id is missing or the page has no script or
\* no button, and HEALTHY with no breaking change otherwise
C27_FixedIdsSplitAndStatus ==
    ToolAnswered =>
        /\ Range(FoundIds) \cap Range(MissingIds) = {}
        /\ Range(FoundIds) \cup Range(MissingIds) = {"count", "increment", "decrement", "reset"}
        /\ Len(FoundIds) + Len(MissingIds) = 4
        /\ Range(FoundIds) = {"count", "increment", "decrement", "reset"} \cap PageIds
        /\ ToolStatus \in {"HEALTHY", "ISSUES_DETECTED"}
        /\ ToolStatus = "ISSUES_DETECTED" <=> (MissingIds # <<>> \/ NoScripts \/ NoButtons)
        /\ ToolStatus = "HEALTHY" => BreakingChanges = <<>>
        /\ "No buttons found - user interaction is broken" \in Range(BreakingChanges) <=> NoButtons
\* every id is found and the page has lost its script
C27_Witness ==
    /\ ToolAnswered
    /\ MissingIds = <<>>
    /\ NoScripts
    /\ ToolStatus = "ISSUES_DETECTED"

=============================================================================
